---- MODULE Spec2Model ----
(***************************************************************************)
(* Foundry planner: the batch orchestrator (main.py), the order driver and *)
(* single-order planner (planner_engine.py), the resource ledger           *)
(* (resource_manager.py) and the business-day calendar                     *)
(* (calendar_manager.py).                                                  *)
(*                                                                         *)
(* Dates are day numbers; day 0 is a Monday, so weekday(d) = d % 7 with    *)
(* 0..4 = Mon..Fri.  Tons are integer multiples of one weight unit.        *)
(* A Python defaultdict is a function on the keys written so far, read     *)
(* with a default of 0 (Get).                                              *)
(***************************************************************************)
EXTENDS Integers, Sequences, FiniteSets, TLC

VARIABLES
    today,        \* date.today(), fixed during a run
    holidays,     \* CalendarManager.holidays
    resources,    \* the ResourceManager: capacities and day-keyed counters
    orders,       \* main's list of Order objects (sorted by SortOrders)
    idx,          \* position of main's for loop in orders
    pc,           \* control point of the run
    plan,         \* plan_full_order's local plan of the order in progress
    frame,        \* the active plan_order call: its arguments and locals
    ret,          \* value returned by the last plan_order call
    full_plan,    \* main's full_plan: order_id -> emitted plan
    exc,          \* exception that ended the run, or "None"
    input_orders, \* history: the orders as parse_orders returned them
    history       \* the completed earlier runs on these inputs: the full_plan each
                  \* produced and the entry point by which the next run was started

vars == <<today, holidays, resources, orders, idx, pc, plan, frame, ret, full_plan, exc,
         input_orders, history>>

-----------------------------------------------------------------------------
(* Bounds of the model *)

\* largest parts_total of an input order
MaxQty == 4
\* largest cooling_days of an input order
MaxCooling == 2
\* date.max lies this many days after the Monday of the week of the run
HorizonDays == 70

\* plan_order / plan_full_order default arguments
max_search_days == 30
default_safety_days == 3
days_after_pattern == 3
days_after_sample == 3

None == 0 - 1
\* Monday of the week in which the run takes place
BaseMonday == 10 * 7
MaxDate == BaseMonday + HorizonDays

Min(a, b) == IF a <= b THEN a ELSE b
Max(a, b) == IF a >= b THEN a ELSE b
\* math.ceil(a / b) for b > 0
Ceil(a, b) == 0 - ((0 - a) \div b)
\* defaultdict read
Get(f, k) == IF k \in DOMAIN f THEN f[k] ELSE 0
\* defaultdict "f[k] += q"
Add(f, k, q) == [x \in (DOMAIN f) \cup {k} |-> IF x = k THEN Get(f, k) + q ELSE f[x]]
\* dict.get(phase, [])
GetList(s, phase) == IF phase \in DOMAIN s THEN s[phase] ELSE <<>>
\* defaultdict(list): s[phase].append(e) / .extend(es)
Extend(s, phase, es) ==
    [x \in (DOMAIN s) \cup {phase} |-> IF x = phase THEN GetList(s, phase) \o es ELSE s[x]]

RECURSIVE SumSeq(_)
SumSeq(s) == IF s = <<>> THEN 0 ELSE s[1] + SumSeq(Tail(s))

-----------------------------------------------------------------------------
(* orders_parser.py: enums *)

\* An Enum member and a str never compare equal in Python; the type tag keeps
\* that distinction.
Strategy_ASAP == [type |-> "Strategy", name |-> "ASAP"]
Strategy_JIT == [type |-> "Strategy", name |-> "JIT"]
\* member.name
EnumName(member) == [type |-> "str", name |-> member.name]

\* OrderStatus members with their .value
UNSCHEDULED == [name |-> "UNSCHEDULED", value |-> 0]
ONTIME == [name |-> "ONTIME", value |-> 1]
DELAYED == [name |-> "DELAYED", value |-> 2]

-----------------------------------------------------------------------------
(* calendar_manager.py *)

is_business_day(hol, d) == (d % 7) < 5 /\ d \notin hol

RECURSIVE next_business_day_from(_, _)
next_business_day_from(hol, next_day) ==
    IF is_business_day(hol, next_day) THEN next_day
    ELSE next_business_day_from(hol, next_day + 1)
next_business_day(hol, d) == next_business_day_from(hol, d + 1)

RECURSIVE prev_business_day_from(_, _)
prev_business_day_from(hol, prev_day) ==
    IF is_business_day(hol, prev_day) THEN prev_day
    ELSE prev_business_day_from(hol, prev_day - 1)
prev_business_day(hol, d) == prev_business_day_from(hol, d - 1)

RECURSIVE add_business_days_loop(_, _, _, _, _)
add_business_days_loop(hol, current_date, delta, count, n_abs) ==
    IF count < n_abs
    THEN LET nxt == current_date + delta
         IN add_business_days_loop(hol, nxt, delta,
                IF is_business_day(hol, nxt) THEN count + 1 ELSE count, n_abs)
    ELSE current_date
CountingStartDate(hol, start_date, n) ==
    add_business_days_loop(hol, start_date - (IF n >= 0 THEN 1 ELSE 0 - 1),
                           IF n >= 0 THEN 1 ELSE 0 - 1, 0, IF n >= 0 THEN n ELSE 0 - n)
add_business_days(hol, start_date, n) ==
    add_business_days_loop(hol, start_date, IF n >= 0 THEN 1 ELSE 0 - 1, 0,
                           IF n >= 0 THEN n ELSE 0 - n)

add_calendar_days(start_date, n) == start_date + n

-----------------------------------------------------------------------------
(* orders_parser.py: Order *)

\* Order.compute_estimated_duration
compute_estimated_duration(order, max_molds_per_day) ==
    LET total_molds == Ceil(order.parts_total, order.parts_per_mold)
        remaining_molds == total_molds - order.produced_molds - order.scraped_molds
        molding_days == Ceil(remaining_molds, max_molds_per_day)
    IN (molding_days + (molding_days \div 5) * 2)
       + order.cooling_days + order.finishing_days_nominal

\* tons_per_mold = order.parts_per_mold * order.part_weight_ton
tons_per_mold(order) == order.parts_per_mold * order.part_weight_ton

-----------------------------------------------------------------------------
(* resource_manager.py: ResourceManager.  rm is the object; the reserve_*    *)
(* operators return the object after the call.                              *)

ResourceManager(flask_limits, mold_limit_per_day, pouring_limit_per_day, pattern_limit_per_day, staging_limit, max_same_part_molds, product_family_max_mix) ==
    [ flask_limits |-> flask_limits,
      max_molds_per_day |-> mold_limit_per_day,
      max_pouring_tons_per_day |-> pouring_limit_per_day,
      max_patterns_per_day |-> pattern_limit_per_day,
      max_staging_molds |-> staging_limit,
      max_same_part_molds_per_day |-> max_same_part_molds,
      \* family -> percentage; "40%" is kept as 40 and divided by 100 where used
      product_family_max_mix |-> product_family_max_mix,
      flask_pool |-> <<>>,              \* <<day, flask_size>> -> count
      daily_molds |-> <<>>,             \* day -> count
      daily_pouring |-> <<>>,           \* day -> tons
      pattern_slots |-> <<>>,           \* day -> count
      staging_area |-> <<>>,            \* day -> count
      same_part_molds |-> <<>>,         \* <<day, key>> -> count
      product_family_usage |-> <<>> ]   \* <<day, family>> -> count

ReserveFlaskOnMoldDay(rm, start_day, end_day, flask_size, quantity) ==
    [rm EXCEPT !.flask_pool = Add(rm.flask_pool, <<start_day, flask_size>>, quantity)]
ReserveFlaskOnWeekdays(rm, start_day, end_day, flask_size, quantity) ==
    LET ks == {<<d, flask_size>> : d \in {x \in start_day..end_day : is_business_day({}, x)}}
    IN [rm EXCEPT !.flask_pool =
           [x \in (DOMAIN rm.flask_pool) \cup ks |->
               IF x \in ks THEN Get(rm.flask_pool, x) + quantity ELSE rm.flask_pool[x]]]
reserve_flask(rm, start_day, end_day, flask_size, quantity) ==
    LET ks == {<<d, flask_size>> : d \in start_day..end_day}
    IN [rm EXCEPT !.flask_pool =
           [x \in (DOMAIN rm.flask_pool) \cup ks |->
               IF x \in ks THEN Get(rm.flask_pool, x) + quantity ELSE rm.flask_pool[x]]]

ReserveOneMold(rm, day, quantity) ==
    [rm EXCEPT !.daily_molds = Add(rm.daily_molds, day, 1)]
reserve_molds(rm, day, quantity) ==
    [rm EXCEPT !.daily_molds = Add(rm.daily_molds, day, quantity)]

reserve_pouring(rm, day, tons) ==
    [rm EXCEPT !.daily_pouring = Add(rm.daily_pouring, day, tons)]

ExceedsPatternLimit(rm, day) == Get(rm.pattern_slots, day) <= rm.max_patterns_per_day
can_schedule_pattern(rm, day) == Get(rm.pattern_slots, day) < rm.max_patterns_per_day

ReserveTwoPatterns(rm, day) ==
    [rm EXCEPT !.pattern_slots = Add(rm.pattern_slots, day, 2)]
reserve_pattern(rm, day) ==
    [rm EXCEPT !.pattern_slots = Add(rm.pattern_slots, day, 1)]

ReleaseStaging(rm, day, quantity) ==
    [rm EXCEPT !.staging_area = Add(rm.staging_area, day, 0 - quantity)]
reserve_staging(rm, day, quantity) ==
    [rm EXCEPT !.staging_area = Add(rm.staging_area, day, quantity)]

reserve_same_part(rm, day, part_number, quantity) ==
    [rm EXCEPT !.same_part_molds = Add(rm.same_part_molds, <<day, part_number>>, quantity)]

IgnoreDailyMolds(rm, order, mold_day, pouring_day) ==
    Min(rm.max_molds_per_day,
        rm.max_same_part_molds_per_day - Get(rm.same_part_molds, <<mold_day, order.order_id>>))
compute_available_molds(rm, order, mold_day, pouring_day) ==
    LET total_molds_available == rm.max_molds_per_day - Get(rm.daily_molds, mold_day)
        max_same_part_molds ==
            rm.max_same_part_molds_per_day
            - Get(rm.same_part_molds, <<mold_day, order.order_id>>)
    IN Min(total_molds_available, max_same_part_molds)

IgnoreDailyPouring(rm, order, pouring_day) ==
    rm.max_pouring_tons_per_day \div tons_per_mold(order)
compute_available_pouring(rm, order, pouring_day) ==
    LET pouring_capacity_left ==
            rm.max_pouring_tons_per_day - Get(rm.daily_pouring, pouring_day)
    IN pouring_capacity_left \div tons_per_mold(order)

\* float('inf')
Infinity == 1000000

\* floor(fraction * max_molds_per_day - used); used is an integer and the
\* percentages of the configurations below are exact binary fractions
MixIgnoringUsage(rm, order, day) ==
    IF order.product_family \notin DOMAIN rm.product_family_max_mix
    THEN Infinity
    ELSE (rm.product_family_max_mix[order.product_family] * rm.max_molds_per_day) \div 100
compute_available_mix(rm, order, day) ==
    IF order.product_family \notin DOMAIN rm.product_family_max_mix
    THEN Infinity
    ELSE LET used == Get(rm.product_family_usage, <<day, order.product_family>>)
         IN ((rm.product_family_max_mix[order.product_family] * rm.max_molds_per_day)
                \div 100) - used

reserve_mix(rm, day, family, quantity) ==
    IF family \in DOMAIN rm.product_family_max_mix
    THEN [rm EXCEPT !.product_family_usage =
             Add(rm.product_family_usage, <<day, family>>, quantity)]
    ELSE rm

-----------------------------------------------------------------------------
(* planner_engine.py: try_schedule (the dry-run) *)

\* phase chain of one molding day (try_schedule, "calculate dates for each phase")
StagingOnMoldDay(mold_day) == mold_day
staging_day_of(mold_day) == add_calendar_days(mold_day, 1)

PouringOnStagingDay(hol, staging_day) == staging_day
pouring_day_of(hol, staging_day) ==
    IF is_business_day(hol, staging_day) THEN staging_day
    ELSE next_business_day(hol, staging_day)

shakeout_day_of(hol, pouring_day, cooling_days) ==
    LET cooling_ends == add_calendar_days(pouring_day, cooling_days)
    IN IF is_business_day(hol, cooling_ends) THEN cooling_ends
       ELSE next_business_day(hol, cooling_ends)

\* used = resources.flask_pool[d][size] + temp_flask_pool[d][size]
FlaskUsedLedgerOnly(rm, temp_flask_pool, d, flask_size) ==
    Get(rm.flask_pool, <<d, flask_size>>)
flask_used(rm, temp_flask_pool, d, flask_size) ==
    Get(rm.flask_pool, <<d, flask_size>>) + Get(temp_flask_pool, <<d, flask_size>>)

\* min over the flask days of flask_limits[size] - used
RECURSIVE max_molds_flasks_loop(_, _, _, _, _, _)
max_molds_flasks_loop(rm, temp_flask_pool, flask_size, d, flask_release_day, acc) ==
    IF d <= flask_release_day
    THEN max_molds_flasks_loop(rm, temp_flask_pool, flask_size, d + 1, flask_release_day,
             Min(acc, rm.flask_limits[flask_size]
                      - flask_used(rm, temp_flask_pool, d, flask_size)))
    ELSE acc

AvailableIgnoringRemaining(max_molds_today, max_molds_pouring, max_molds_mix, max_molds_flasks, molds_remaining) ==
    Min(max_molds_today, Min(max_molds_pouring, Min(max_molds_mix, max_molds_flasks)))
available_today_of(max_molds_today, max_molds_pouring, max_molds_mix, max_molds_flasks, molds_remaining) ==
    Min(max_molds_today,
        Min(max_molds_pouring, Min(max_molds_mix, Min(max_molds_flasks, molds_remaining))))

\* the counters are defaultdicts: reading a key that is absent creates it with
\* the default value 0
ReadReserves(f, ks) == [x \in (DOMAIN f) \cup ks |-> Get(f, x) + 1]
read_default(f, ks) == [x \in (DOMAIN f) \cup ks |-> Get(f, x)]

\* the ledger keys a dry-run has read, per counter
NoReads ==
    [ flask_pool |-> {}, daily_molds |-> {}, same_part_molds |-> {},
      daily_pouring |-> {}, product_family_usage |-> {} ]

\* the keys read by one pass of the loop on a business mold_day
reads_of_day(rm, order, reads, mold_day, pouring_day, flask_release_day) ==
    [ flask_pool |-> reads.flask_pool
          \cup {<<d, order.flask_size>> : d \in mold_day..flask_release_day},
      daily_molds |-> reads.daily_molds \cup {mold_day},
      same_part_molds |-> reads.same_part_molds \cup {<<mold_day, order.order_id>>},
      daily_pouring |-> reads.daily_pouring \cup {pouring_day},
      product_family_usage |-> reads.product_family_usage
          \cup (IF order.product_family \in DOMAIN rm.product_family_max_mix
                THEN {<<mold_day, order.product_family>>} ELSE {}) ]

\* the ledger object after a dry-run that read these keys
ledger_after_reads(rm, reads) ==
    [rm EXCEPT !.flask_pool = read_default(@, reads.flask_pool),
               !.daily_molds = read_default(@, reads.daily_molds),
               !.same_part_molds = read_default(@, reads.same_part_molds),
               !.daily_pouring = read_default(@, reads.daily_pouring),
               !.product_family_usage = read_default(@, reads.product_family_usage)]

\* state of the "while molds_remaining > 0" loop at its start
try_schedule_locals(order, start_date) ==
    [ molds_remaining |-> order.total_molds,
      mold_day |-> start_date,
      daily_plan |-> <<>>,
      schedule |-> <<>>,
      temp_flask_pool |-> <<>>,
      reads |-> NoReads,
      raised |-> FALSE ]

\* the loop; a date past date.max raises OverflowError
RECURSIVE try_schedule_loop(_, _, _, _)
try_schedule_loop(order, hol, rm, st) ==
    IF st.molds_remaining <= 0 THEN st
    ELSE IF st.mold_day > MaxDate THEN [st EXCEPT !.raised = TRUE]
    ELSE IF ~is_business_day(hol, st.mold_day)
    THEN try_schedule_loop(order, hol, rm,
             [st EXCEPT !.mold_day = add_business_days(hol, st.mold_day, 1)])
    ELSE
      LET mold_day == st.mold_day
          staging_day == staging_day_of(mold_day)
          pouring_day == pouring_day_of(hol, staging_day)
          shakeout_day == shakeout_day_of(hol, pouring_day, order.cooling_days)
          flask_release_day == shakeout_day
          max_molds_flasks ==
              max_molds_flasks_loop(rm, st.temp_flask_pool, order.flask_size,
                                    mold_day, flask_release_day, Infinity)
          max_molds_today == compute_available_molds(rm, order, mold_day, pouring_day)
          max_molds_pouring == compute_available_pouring(rm, order, pouring_day)
          max_molds_mix == compute_available_mix(rm, order, mold_day)
          available_today ==
              available_today_of(max_molds_today, max_molds_pouring, max_molds_mix,
                                 max_molds_flasks, st.molds_remaining)
          ks == {<<d, order.flask_size>> : d \in mold_day..flask_release_day}
          reads == reads_of_day(rm, order, st.reads, mold_day, pouring_day,
                                flask_release_day)
      IN IF available_today <= 0
         THEN try_schedule_loop(order, hol, rm,
                  [st EXCEPT !.mold_day = add_business_days(hol, mold_day, 1),
                             !.reads = reads])
         ELSE try_schedule_loop(order, hol, rm,
                  [ molds_remaining |-> st.molds_remaining - available_today,
                    mold_day |-> add_business_days(hol, mold_day, 1),
                    daily_plan |-> Append(st.daily_plan, <<mold_day, available_today>>),
                    schedule |->
                        Extend(Extend(Extend(Extend(st.schedule,
                            "molding", << [mold_day |-> mold_day, qty |-> available_today,
                                           flask_release_day |-> flask_release_day] >>),
                            "staging", << <<staging_day, available_today>> >>),
                            "pouring", << <<pouring_day,
                                            available_today * tons_per_mold(order)>> >>),
                            "shakeout", << <<shakeout_day, available_today>> >>),
                    temp_flask_pool |->
                        [x \in (DOMAIN st.temp_flask_pool) \cup ks |->
                            IF x \in ks
                            THEN Get(st.temp_flask_pool, x) + available_today
                            ELSE st.temp_flask_pool[x]],
                    reads |-> reads,
                    raised |-> FALSE ])

\* "for days in range(nominal, min - 1, -1): ... break / else: days = min"
RECURSIVE finishing_days_loop(_, _, _, _, _)
finishing_days_loop(hol, finishing_start, days, finishing_days_min, due_date) ==
    IF days < finishing_days_min THEN finishing_days_min
    ELSE IF add_business_days(hol, finishing_start, days) <= due_date THEN days
    ELSE finishing_days_loop(hol, finishing_start, days - 1, finishing_days_min, due_date)

PartCountNoExtra(daily_parts, extra, i) == daily_parts
part_count_of(daily_parts, extra, i) == daily_parts + (IF i < extra THEN 1 ELSE 0)

RECURSIVE ExtraOnLastDays(_, _, _, _, _, _)
ExtraOnLastDays(hol, i, days, current_day, daily_parts, extra) ==
    IF i >= days THEN <<>>
    ELSE LET day == IF ~is_business_day(hol, current_day)
                    THEN add_business_days(hol, current_day, 1) ELSE current_day
         IN << <<day, daily_parts + (IF i >= days - extra THEN 1 ELSE 0)>> >>
            \o ExtraOnLastDays(hol, i + 1, days, add_business_days(hol, day, 1),
                               daily_parts, extra)

\* "for i in range(days)": the finishing entries from index i on
RECURSIVE finishing_entries(_, _, _, _, _, _)
finishing_entries(hol, i, days, current_day, daily_parts, extra) ==
    IF i >= days THEN <<>>
    ELSE LET day == IF ~is_business_day(hol, current_day)
                    THEN add_business_days(hol, current_day, 1) ELSE current_day
         IN << <<day, part_count_of(daily_parts, extra, i)>> >>
            \o finishing_entries(hol, i + 1, days, add_business_days(hol, day, 1),
                                 daily_parts, extra)

\* start of the finishing window after the last molding day
FinishingFromStagingDay(hol, order, last_mold_day) ==
    next_business_day(hol, last_mold_day)
finishing_start_of(hol, order, last_mold_day) ==
    LET staging_day == add_calendar_days(last_mold_day, 1)
        pouring_day == next_business_day(hol, staging_day)
        cooling_ends == add_calendar_days(pouring_day, order.cooling_days)
        shakeout_day == next_business_day(hol, cooling_ends)
    IN next_business_day(hol, shakeout_day)

\* returns [raised, can_schedule, plan, resources]; plan = None stands for
\* Python's None, resources is the ledger object after the call
try_schedule(order, start_date, hol, rm) ==
    LET st == try_schedule_loop(order, hol, rm, try_schedule_locals(order, start_date))
        after == ledger_after_reads(rm, st.reads)
    IN IF st.raised
       THEN [raised |-> TRUE, can_schedule |-> FALSE, plan |-> None, resources |-> after]
       ELSE IF st.molds_remaining > 0 \/ st.daily_plan = <<>>
       THEN [raised |-> FALSE, can_schedule |-> FALSE, plan |-> None, resources |-> after]
       ELSE
         LET last_mold_day == st.daily_plan[Len(st.daily_plan)][1]
             finishing_start == finishing_start_of(hol, order, last_mold_day)
             days == finishing_days_loop(hol, finishing_start,
                         order.finishing_days_nominal, order.finishing_days_min,
                         order.due_date)
             total_parts == order.parts_total
             daily_parts == total_parts \div days
             extra == total_parts % days
         IN [ raised |-> FALSE, can_schedule |-> TRUE, resources |-> after,
              plan |-> Extend(st.schedule, "finishing",
                         finishing_entries(hol, 0, days, finishing_start,
                                           daily_parts, extra)) ]

-----------------------------------------------------------------------------
(* planner_engine.py: firm_schedule (the commit) *)

\* reservations of the molding entries from index i on
RECURSIVE reserve_molding_entries(_, _, _, _)
reserve_molding_entries(rm, order, items, i) ==
    IF i > Len(items) THEN rm
    ELSE LET entry == items[i]
             r1 == reserve_molds(rm, entry.mold_day, entry.qty)
             r2 == reserve_same_part(r1, entry.mold_day, order.order_id, entry.qty)
             r3 == reserve_flask(r2, entry.mold_day, entry.flask_release_day,
                                 order.flask_size, entry.qty)
             r4 == reserve_mix(r3, entry.mold_day, order.product_family, entry.qty)
         IN reserve_molding_entries(r4, order, items, i + 1)

ReserveStagingOnce(rm, items, i) ==
    IF i > Len(items) THEN rm ELSE reserve_staging(rm, items[i][1], items[i][2])

RECURSIVE reserve_staging_entries(_, _, _)
reserve_staging_entries(rm, items, i) ==
    IF i > Len(items) THEN rm
    ELSE reserve_staging_entries(reserve_staging(rm, items[i][1], items[i][2]), items, i + 1)

RECURSIVE reserve_pouring_entries(_, _, _)
reserve_pouring_entries(rm, items, i) ==
    IF i > Len(items) THEN rm
    ELSE reserve_pouring_entries(reserve_pouring(rm, items[i][1], items[i][2]), items, i + 1)

\* returns [resources, schedule, end_date]
firm_schedule(order, start_date, hol, rm, dry) ==
    LET r1 == reserve_molding_entries(rm, order, GetList(dry, "molding"), 1)
        r2 == reserve_staging_entries(r1, GetList(dry, "staging"), 1)
        r3 == reserve_pouring_entries(r2, GetList(dry, "pouring"), 1)
        schedule ==
            [phase \in DOMAIN dry |->
                IF phase = "molding"
                THEN [i \in 1..Len(dry[phase]) |->
                         <<dry[phase][i].mold_day, dry[phase][i].qty>>]
                ELSE dry[phase]]
    IN [ resources |-> r3,
         schedule |-> schedule,
         end_date |-> schedule["finishing"][Len(schedule["finishing"])][1] ]

-----------------------------------------------------------------------------
(* planner_engine.py: plan_order *)

\* the order object a plan_order call works on: the synthetic sample order, or
\* the order of main's loop
CurOrder == IF frame.ctx = "sample" THEN plan.sample_order ELSE orders[idx]

NoFrame ==
    [ ctx |-> "none", start_date |-> None, direction |-> 0, attempt |-> 0,
      safety_days |-> 0, dry |-> None ]

\* a plan_order result
PlanResult(order_id, status, start_date, end_date, schedule) ==
    [ order_id |-> order_id, status |-> status, start_date |-> start_date,
      end_date |-> end_date, schedule |-> schedule ]

NoStatus == [name |-> "None", value |-> None]
NoResult == PlanResult("", NoStatus, None, None, <<>>)

\* "Determine start date and direction": the frame at the head of the search loop
direction_for_start(order) ==
    IF EnumName(order.strategy) = Strategy_ASAP THEN 1 ELSE 0 - 1

plan_order_entry(order, hol, rm, tdy, safety_days, start_date, ctx) ==
    LET estimated_duration == compute_estimated_duration(order, rm.max_molds_per_day)
    IN IF start_date # None
       THEN [ ctx |-> ctx, start_date |-> start_date,
              direction |-> direction_for_start(order),
              attempt |-> 0, safety_days |-> safety_days, dry |-> None ]
       ELSE IF EnumName(order.strategy) = Strategy_JIT
       THEN [ ctx |-> ctx,
              start_date |-> add_business_days(hol, order.due_date,
                                 0 - (estimated_duration + safety_days)),
              direction |-> 0 - 1,
              attempt |-> 0, safety_days |-> safety_days, dry |-> None ]
       ELSE [ ctx |-> ctx, start_date |-> tdy, direction |-> 1,
              attempt |-> 0, safety_days |-> safety_days, dry |-> None ]

\* status = ONTIME if end_date <= order.due_date else DELAYED
StatusStrictlyBefore(end_date, due_date) == IF end_date < due_date THEN ONTIME ELSE DELAYED
status_of(end_date, due_date) == IF end_date <= due_date THEN ONTIME ELSE DELAYED

\* One pass through the body of "while attempt < max_search_days", or the code
\* after the loop when it is exhausted.
SearchStep ==
    /\ pc = "search"
    /\ IF frame.attempt < max_search_days
       THEN IF ~is_business_day(holidays, frame.start_date)
            THEN /\ frame' = [frame EXCEPT
                        !.start_date = add_business_days(holidays, frame.start_date,
                                                         frame.direction),
                        !.attempt = frame.attempt + 1]
                 /\ UNCHANGED <<pc, ret, exc, orders, plan, resources>>
            ELSE LET t == try_schedule(CurOrder, frame.start_date, holidays, resources)
                 IN /\ resources' = t.resources
                    /\ IF t.raised
                       THEN /\ pc' = "raised"
                            /\ exc' = "OverflowError"
                            /\ UNCHANGED <<frame, ret, orders, plan>>
                       ELSE IF t.can_schedule
                       THEN /\ frame' = [frame EXCEPT !.dry = t.plan]
                            /\ pc' = "firm"
                            /\ UNCHANGED <<ret, exc, orders, plan>>
                       ELSE /\ frame' = [frame EXCEPT
                                   !.start_date = add_business_days(holidays,
                                                      frame.start_date, frame.direction),
                                   !.attempt = frame.attempt + 1]
                            /\ UNCHANGED <<pc, ret, exc, orders, plan>>
       ELSE IF EnumName(CurOrder.strategy) = Strategy_JIT
            THEN \* Retry JIT as ASAP: order.strategy = ASAP, recursive call
                 LET o == [CurOrder EXCEPT !.strategy = Strategy_ASAP]
                 IN /\ IF frame.ctx = "sample"
                       THEN /\ plan' = [plan EXCEPT !.sample_order = o]
                            /\ UNCHANGED orders
                       ELSE /\ orders' = [orders EXCEPT ![idx] = o]
                            /\ UNCHANGED plan
                    /\ frame' = plan_order_entry(o, holidays, resources, today, 0,
                                                 None, frame.ctx)
                    /\ UNCHANGED <<pc, ret, exc, resources>>
            ELSE /\ ret' = PlanResult(CurOrder.order_id, UNSCHEDULED, None, None, <<>>)
                 /\ pc' = "return"
                 /\ UNCHANGED <<frame, exc, orders, plan, resources>>
    /\ UNCHANGED <<history, input_orders, today, holidays, idx, full_plan>>

\* firm_schedule on the dry-run plan, then plan_order's return statement
FirmSchedule ==
    /\ pc = "firm"
    /\ LET f == firm_schedule(CurOrder, frame.start_date, holidays, resources, frame.dry)
       IN /\ resources' = f.resources
          /\ ret' = PlanResult(CurOrder.order_id,
                               status_of(f.end_date, CurOrder.due_date),
                               frame.start_date, f.end_date, f.schedule)
    /\ pc' = "return"
    /\ UNCHANGED <<history, input_orders, today, holidays, orders, idx, plan, frame, full_plan, exc>>

-----------------------------------------------------------------------------
(* planner_engine.py: plan_full_order *)

NoPlan ==
    [ order_id |-> "", status |-> NoStatus, start_date |-> None, end_date |-> None,
      schedule |-> <<>>, sample_order |-> None, sample_plan |-> None ]

\* "while remaining > 0" of the pattern phase; a date past date.max raises
RECURSIVE pattern_loop(_, _, _, _, _)
pattern_loop(hol, rm, remaining, ptr, entries) ==
    IF remaining <= 0 THEN [resources |-> rm, pattern |-> entries, raised |-> FALSE]
    ELSE IF ptr > MaxDate THEN [resources |-> rm, pattern |-> entries, raised |-> TRUE]
    ELSE IF is_business_day(hol, ptr) /\ can_schedule_pattern(rm, ptr)
    THEN pattern_loop(hol, reserve_pattern(rm, ptr), remaining - 1,
                      next_business_day(hol, ptr), Append(entries, <<ptr, 1>>))
    ELSE pattern_loop(hol, rm, remaining, next_business_day(hol, ptr), entries)

\* Step 2: the synthetic sample order.  Order.__init__ defaults stand for the
\* attributes the code does not set (product_family '', produced/scraped 0);
\* part_number is not an attribute of the sample order.
make_sample_order(order) ==
    [ order_id |-> order.order_id \o "-SAMPLE",
      strategy |-> Strategy_ASAP,
      is_new |-> FALSE,
      due_date |-> order.due_date,
      pattern_days |-> 0,
      sample_molds |-> 0,
      cooling_days |-> order.cooling_days,
      finishing_days_nominal |-> order.finishing_days_min,
      finishing_days_min |-> order.finishing_days_min,
      parts_total |-> order.sample_molds * order.parts_per_mold,
      parts_per_mold |-> order.parts_per_mold,
      part_weight_ton |-> order.part_weight_ton,
      flask_size |-> order.flask_size,
      total_molds |-> order.sample_molds,
      produced_molds |-> 0,
      scraped_molds |-> 0,
      product_family |-> "",
      part_number |-> "" ]

\* main's loop body, second half: full_plan[order.order_id] = {...}
Iso(d) == [iso |-> d]
emit(p) ==
    [ status |-> p.status.name,
      start_date |-> IF p.start_date # None THEN Iso(p.start_date) ELSE Iso(None),
      end_date |-> IF p.end_date # None THEN Iso(p.end_date) ELSE Iso(None),
      schedule |-> [phase \in DOMAIN p.schedule |->
                       [i \in 1..Len(p.schedule[phase]) |->
                           <<Iso(p.schedule[phase][i][1]), p.schedule[phase][i][2]>>]] ]

Store(fp, order_id, p) ==
    [x \in (DOMAIN fp) \cup {order_id} |-> IF x = order_id THEN emit(p) ELSE fp[x]]

\* main's for loop calls plan_full_order on a recurrent order: plan_order is entered
PlanRecurrent ==
    /\ pc = "loop"
    /\ idx <= Len(orders)
    /\ ~orders[idx].is_new
    /\ frame' = plan_order_entry(orders[idx], holidays, resources, today,
                                 default_safety_days, None, "recurrent")
    /\ pc' = "search"
    /\ plan' = NoPlan
    /\ UNCHANGED <<history, input_orders, today, holidays, resources, orders, idx, ret, full_plan, exc>>

\* plan_full_order on a new order, Step 1: pattern manufacturing
PatternPhase ==
    /\ pc = "loop"
    /\ idx <= Len(orders)
    /\ orders[idx].is_new
    /\ LET r == pattern_loop(holidays, resources, orders[idx].pattern_days, today, <<>>)
       IN IF r.raised
          THEN /\ pc' = "raised"
               /\ exc' = "OverflowError"
               /\ resources' = r.resources
               /\ UNCHANGED plan
          ELSE /\ resources' = r.resources
               /\ plan' = [NoPlan EXCEPT !.order_id = orders[idx].order_id,
                                         !.schedule = Extend(<<>>, "pattern", r.pattern)]
               /\ IF r.pattern = <<>>
                  THEN \* plan["schedule"]["pattern"][-1] on an empty list
                       pc' = "raised" /\ exc' = "IndexError"
                  ELSE pc' = "sample" /\ UNCHANGED exc
    /\ UNCHANGED <<history, input_orders, today, holidays, orders, idx, frame, ret, full_plan>>

\* sample_start = calendar.add_business_days(pattern_end, days_after_pattern)
sample_start_of(hol, pattern_end) == add_business_days(hol, pattern_end, days_after_pattern)

\* main_start = calendar.add_business_days(sample_end, days_after_sample)
MainStartsNextDay(hol, sample_end) == next_business_day(hol, sample_end)
main_start_of(hol, sample_end) == add_business_days(hol, sample_end, days_after_sample)

\* Step 2: build the sample order and enter plan_order for it
SamplePhase ==
    /\ pc = "sample"
    /\ LET pattern == plan.schedule["pattern"]
           pattern_end == pattern[Len(pattern)][1]
           sample_order == make_sample_order(orders[idx])
           sample_start == sample_start_of(holidays, pattern_end)
       IN /\ plan' = [plan EXCEPT !.sample_order = sample_order]
          /\ frame' = plan_order_entry(sample_order, holidays, resources, today, 0,
                                       sample_start, "sample")
    /\ pc' = "search"
    /\ UNCHANGED <<history, input_orders, today, holidays, resources, orders, idx, ret, full_plan, exc>>

\* if sample_plan["status"] == OrderStatus.UNSCHEDULED
SampleNeverUnscheduled(sample_plan) == FALSE
sample_unscheduled(sample_plan) == sample_plan.status = UNSCHEDULED

\* after the sample's plan_order returns: give up, or Step 3 up to the call of
\* plan_order for the main production
AfterSample ==
    /\ pc = "return"
    /\ frame.ctx = "sample"
    /\ IF sample_unscheduled(ret)
       THEN /\ full_plan' = Store(full_plan, orders[idx].order_id,
                                  [plan EXCEPT !.status = UNSCHEDULED])
            /\ idx' = idx + 1
            /\ pc' = "loop"
            /\ frame' = NoFrame
            /\ plan' = NoPlan
            /\ UNCHANGED orders
       ELSE LET sample_end == ret.end_date
                produced == plan.sample_order.parts_total
                parts_total == orders[idx].parts_total - produced
                order == [orders[idx] EXCEPT
                             !.parts_total = parts_total,
                             !.total_molds = Ceil(parts_total, orders[idx].parts_per_mold)]
                main_start == main_start_of(holidays, sample_end)
            IN /\ orders' = [orders EXCEPT ![idx] = order]
               /\ plan' = [plan EXCEPT
                              !.schedule = Extend(plan.schedule, "sample_end",
                                                  << <<sample_end, 1>> >>),
                              !.sample_plan = ret]
               /\ frame' = plan_order_entry(order, holidays, resources, today,
                                            default_safety_days, main_start, "main")
               /\ pc' = "search"
               /\ UNCHANGED <<idx, full_plan>>
    /\ UNCHANGED <<history, input_orders, today, holidays, resources, ret, exc>>

RECURSIVE MainBeforeSample(_, _, _, _)
MainBeforeSample(schedule, phases, sample_schedule, main_schedule) ==
    IF phases = <<>> THEN schedule
    ELSE MainBeforeSample(
             Extend(Extend(schedule, phases[1], GetList(main_schedule, phases[1])),
                    phases[1], GetList(sample_schedule, phases[1])),
             Tail(phases), sample_schedule, main_schedule)

\* "Merge sample and main phases into plan.schedule"
RECURSIVE merge_phases(_, _, _, _)
merge_phases(schedule, phases, sample_schedule, main_schedule) ==
    IF phases = <<>> THEN schedule
    ELSE merge_phases(
             Extend(Extend(schedule, phases[1], GetList(sample_schedule, phases[1])),
                    phases[1], GetList(main_schedule, phases[1])),
             Tail(phases), sample_schedule, main_schedule)

\* max(sample.status, main.status, key=lambda s: s.value)
SampleStatusOnly(a, b) == a
max_status(a, b) == IF b.value > a.value THEN b ELSE a

\* Step 4
consolidate(p, sample_plan, main_plan) ==
    [p EXCEPT
        !.status = max_status(sample_plan.status, main_plan.status),
        !.start_date = p.schedule["pattern"][1][1],
        !.end_date = Max(sample_plan.end_date, main_plan.end_date),
        !.schedule = merge_phases(p.schedule,
                         <<"pattern", "molding", "staging", "pouring", "shakeout",
                           "finishing">>,
                         sample_plan.schedule, main_plan.schedule)]

\* after the main production's plan_order returns; main stores the plan
AfterMain ==
    /\ pc = "return"
    /\ frame.ctx = "main"
    /\ full_plan' = Store(full_plan, orders[idx].order_id,
                          IF ret.status = UNSCHEDULED
                          THEN [plan EXCEPT !.status = UNSCHEDULED]
                          ELSE consolidate(plan, plan.sample_plan, ret))
    /\ idx' = idx + 1
    /\ pc' = "loop"
    /\ frame' = NoFrame
    /\ plan' = NoPlan
    /\ UNCHANGED <<history, input_orders, today, holidays, resources, orders, ret, exc>>

\* a recurrent order's plan_order returns to main, which stores the plan
EmitRecurrent ==
    /\ pc = "return"
    /\ frame.ctx = "recurrent"
    /\ full_plan' = Store(full_plan, orders[idx].order_id, ret)
    /\ idx' = idx + 1
    /\ pc' = "loop"
    /\ frame' = NoFrame
    /\ plan' = NoPlan
    /\ UNCHANGED <<history, input_orders, today, holidays, resources, orders, ret, exc>>

-----------------------------------------------------------------------------
(* main.py *)

\* the sort key: ((due_date - timedelta(days=estimated_duration)) - today).days
slack(order, rm, tdy) ==
    (order.due_date - compute_estimated_duration(order, rm.max_molds_per_day)) - tdy

\* list.sort(key=...) is stable: insertion after the last element whose key is <=
KeepInputOrder(sorted, o, rm, tdy) == Append(sorted, o)
RECURSIVE insert_sorted(_, _, _, _)
insert_sorted(sorted, o, rm, tdy) ==
    IF sorted = <<>> THEN <<o>>
    ELSE IF slack(sorted[Len(sorted)], rm, tdy) <= slack(o, rm, tdy)
    THEN Append(sorted, o)
    ELSE Append(insert_sorted(SubSeq(sorted, 1, Len(sorted) - 1), o, rm, tdy),
                sorted[Len(sorted)])

RECURSIVE sort_orders(_, _, _)
sort_orders(os, rm, tdy) ==
    IF os = <<>> THEN <<>>
    ELSE insert_sorted(sort_orders(SubSeq(os, 1, Len(os) - 1), rm, tdy),
                       os[Len(os)], rm, tdy)

SortOrders ==
    /\ pc = "sort"
    /\ orders' = sort_orders(orders, resources, today)
    /\ pc' = "loop"
    /\ UNCHANGED <<history, input_orders, today, holidays, resources, idx, plan, frame, ret, full_plan, exc>>

\* the for loop is over: reports and full_plan.json
Finish ==
    /\ pc = "loop"
    /\ idx > Len(orders)
    /\ pc' = "done"
    /\ UNCHANGED <<history, input_orders, today, holidays, resources, orders, idx, plan, frame, ret, full_plan, exc>>

-----------------------------------------------------------------------------
(* orders_parser.py: parse_orders, one record of orders.yaml *)

parse_order(raw) ==
    [ order_id |-> raw.order_id,
      parts_total |-> raw.quantity,
      parts_per_mold |-> raw.parts_per_mold,
      part_weight_ton |-> raw.part_weight,
      part_number |-> raw.part_number,
      flask_size |-> raw.flask_size,
      product_family |-> raw.product_family,
      due_date |-> raw.due_date,
      is_new |-> (raw.order_type = "new"),
      cooling_days |-> raw.cooling_days,
      strategy |-> [type |-> "Strategy", name |-> raw.strategy],
      finishing_days_nominal |-> raw.finishing_nominal,
      finishing_days_min |-> raw.finishing_minimum,
      produced_molds |-> 0,
      scraped_molds |-> 0,
      total_molds |-> Ceil(raw.quantity, raw.parts_per_mold),
      pattern_days |-> IF raw.order_type = "new" THEN raw.pattern_time ELSE 0,
      sample_molds |-> IF raw.order_type = "new" THEN raw.molds_to_sample ELSE 0 ]

-----------------------------------------------------------------------------
(* Inputs of a run *)

\* the calendar and the day of the run: a Thursday in a week without holidays,
\* or a Friday followed by a holiday Monday
CalendarChoices ==
    { [today |-> BaseMonday + 3, holidays |-> {}],
      [today |-> BaseMonday + 4, holidays |-> {BaseMonday + 7}] }

\* resources.yaml: flask_limits, max_molds_per_day, max_pouring_tons_per_day,
\* max_patterns_per_day, max_staging_molds, max_same_part_molds_per_day,
\* product_family_max_mix
ResourceConfigs ==
    { \* the daily molding limit binds
      ResourceManager([F105 |-> 3], 3, 6, 2, 3, 3, <<>>),
      \* one flask
      ResourceManager([F105 |-> 1], 2, 4, 1, 2, 2, <<>>),
      \* one mold per order and day, one staging place, one pattern a day
      ResourceManager([F105 |-> 2], 2, 4, 1, 1, 1, <<>>),
      \* family A capped at 50% of two molds a day
      ResourceManager([F105 |-> 3], 2, 6, 2, 2, 2, [A |-> 50]),
      \* the pouring limit binds
      ResourceManager([F105 |-> 3], 3, 3, 2, 3, 3, <<>>) }

RawOrder(id, quantity, parts_per_mold, order_type, strategy, due_date, cooling_days, molds_to_sample) ==
    [ order_id |-> id, quantity |-> quantity, parts_per_mold |-> parts_per_mold,
      part_weight |-> 1, part_number |-> "P1", order_type |-> order_type,
      flask_size |-> "F105", product_family |-> "A", due_date |-> due_date,
      cooling_days |-> cooling_days, strategy |-> strategy,
      finishing_nominal |-> 2, finishing_minimum |-> 1,
      pattern_time |-> 2, molds_to_sample |-> molds_to_sample ]

OrderTypes == {"new", "recurrent"}

\* orders.yaml: two orders of the same part number and family
RawOrderLists(tdy) ==
    { << RawOrder("O1", q1, 1, t1, "ASAP", tdy + 35, c, 2),
         RawOrder("O2", q2, 2, t2, "JIT", due2, c, 1) >> :
        q1 \in 1..MaxQty, q2 \in 1..MaxQty, t1 \in OrderTypes, t2 \in OrderTypes,
        due2 \in {tdy + 6, tdy + 7, tdy + 35}, c \in {0, MaxCooling} }

Init ==
    /\ \E cal \in CalendarChoices : today = cal.today /\ holidays = cal.holidays
    /\ resources \in ResourceConfigs
    /\ \E raw \in RawOrderLists(today) :
           /\ orders = [i \in 1..Len(raw) |-> parse_order(raw[i])]
           /\ input_orders = [i \in 1..Len(raw) |-> parse_order(raw[i])]
    /\ idx = 1
    /\ pc = "sort"
    /\ plan = NoPlan
    /\ frame = NoFrame
    /\ ret = NoResult
    /\ full_plan = <<>>
    /\ exc = "None"
    /\ history = <<>>

Next ==
    \/ SortOrders
    \/ PlanRecurrent
    \/ PatternPhase
    \/ SamplePhase
    \/ SearchStep
    \/ FirmSchedule
    \/ AfterSample
    \/ AfterMain
    \/ EmitRecurrent
    \/ Finish

Spec == Init /\ [][Next]_vars

-----------------------------------------------------------------------------
(* Runs on inputs at the edge of the input domain: a flask size without     *)
(* flasks or with a single flask, a mold heavier than the daily pouring     *)
(* capacity, a new order without pattern days, two orders of strategy ASAP. *)

EdgeResourceConfigs ==
    { \* no flask of the orders' size
      ResourceManager([F105 |-> 0], 3, 6, 2, 3, 3, <<>>),
      \* one ton a day: a mold of two parts of one ton cannot be poured
      ResourceManager([F105 |-> 3], 3, 1, 2, 3, 3, <<>>),
      \* capacities that bind on no order
      ResourceManager([F105 |-> 3], 3, 6, 2, 3, 3, <<>>),
      \* a single flask, every other capacity ample
      ResourceManager([F105 |-> 1], 3, 6, 2, 3, 3, <<>>) }

\* orders.yaml as in RawOrderLists, the first order with pattern_time 0 or 2, the
\* second with strategy ASAP or JIT and with molds_to_sample 0 or 1
EdgeOrderLists(tdy) ==
    { << [RawOrder("O1", q1, 1, t1, "ASAP", tdy + 35, c, 2) EXCEPT !.pattern_time = pt],
         RawOrder("O2", q2, 2, t2, s2, due2, c, ms) >> :
        q1 \in 1..MaxQty, q2 \in 1..MaxQty, t1 \in OrderTypes, t2 \in OrderTypes,
        s2 \in {"ASAP", "JIT"}, due2 \in {tdy + 6, tdy + 35}, c \in {0, MaxCooling},
        pt \in {0, 2}, ms \in {0, 1} }

InitEdge ==
    /\ \E cal \in CalendarChoices : today = cal.today /\ holidays = cal.holidays
    /\ resources \in EdgeResourceConfigs
    /\ \E raw \in EdgeOrderLists(today) :
           /\ orders = [i \in 1..Len(raw) |-> parse_order(raw[i])]
           /\ input_orders = [i \in 1..Len(raw) |-> parse_order(raw[i])]
    /\ idx = 1
    /\ pc = "sort"
    /\ plan = NoPlan
    /\ frame = NoFrame
    /\ ret = NoResult
    /\ full_plan = <<>>
    /\ exc = "None"
    /\ history = <<>>

SpecEdge == InitEdge /\ [][Next]_vars

-----------------------------------------------------------------------------
(* Planning again on the same loaded inputs: the batch program started once *)
(* more (main.py), or the web UI's run_planner pressed once more            *)
(* (web_ui.py).  A first run of either is the run described above.          *)

\* number of runs on the same inputs
MaxRuns == 2

\* load_resource_config("resources.yaml") read again: the capacities of rm in a
\* new ResourceManager, whose counters are empty
KeepLedger(rm) == rm
load_resource_config(rm) ==
    ResourceManager(rm.flask_limits, rm.max_molds_per_day, rm.max_pouring_tons_per_day,
                    rm.max_patterns_per_day, rm.max_staging_molds,
                    rm.max_same_part_molds_per_day, rm.product_family_max_mix)

\* main() once more: resources, calendar and orders are loaded from their files
MainAgain ==
    /\ pc = "done"
    /\ Len(history) < MaxRuns - 1
    /\ history' = Append(history, [full_plan |-> full_plan, next |-> "main"])
    /\ resources' = load_resource_config(resources)
    /\ orders' = input_orders
    /\ idx' = 1
    /\ pc' = "sort"
    /\ plan' = NoPlan
    /\ frame' = NoFrame
    /\ ret' = NoResult
    /\ full_plan' = <<>>
    /\ UNCHANGED <<input_orders, today, holidays, exc>>

\* APP_STATE["orders"]: the Order objects of the previous run in the order in which
\* they were loaded
AppStateOrders ==
    [k \in 1..Len(input_orders) |->
        orders[CHOOSE j \in 1..Len(orders) : orders[j].order_id = input_orders[k].order_id]]

\* run_planner() once more: sorted(APP_STATE["orders"]) and a new full_plan, with
\* APP_STATE["resource_manager"] and APP_STATE["calendar_manager"] as they are
RunPlannerAgain ==
    /\ pc = "done"
    /\ Len(history) < MaxRuns - 1
    /\ history' = Append(history, [full_plan |-> full_plan, next |-> "run_planner"])
    /\ orders' = sort_orders(AppStateOrders, resources, today)
    /\ idx' = 1
    /\ pc' = "loop"
    /\ plan' = NoPlan
    /\ frame' = NoFrame
    /\ ret' = NoResult
    /\ full_plan' = <<>>
    /\ UNCHANGED <<input_orders, today, holidays, resources, exc>>

\* resources.yaml of the repeated runs: ample capacities, or family A capped
RunsResourceConfigs ==
    { ResourceManager([F105 |-> 3], 3, 6, 2, 3, 3, <<>>),
      ResourceManager([F105 |-> 3], 2, 6, 2, 2, 2, [A |-> 50]) }

InitRuns ==
    /\ \E cal \in CalendarChoices : today = cal.today /\ holidays = cal.holidays
    /\ resources \in RunsResourceConfigs
    /\ \E raw \in RawOrderLists(today) :
           /\ orders = [i \in 1..Len(raw) |-> parse_order(raw[i])]
           /\ input_orders = [i \in 1..Len(raw) |-> parse_order(raw[i])]
    /\ idx = 1
    /\ pc = "sort"
    /\ plan = NoPlan
    /\ frame = NoFrame
    /\ ret = NoResult
    /\ full_plan = <<>>
    /\ exc = "None"
    /\ history = <<>>

NextRuns ==
    \/ SortOrders
    \/ PlanRecurrent
    \/ PatternPhase
    \/ SamplePhase
    \/ SearchStep
    \/ FirmSchedule
    \/ AfterSample
    \/ AfterMain
    \/ EmitRecurrent
    \/ Finish
    \/ MainAgain
    \/ RunPlannerAgain

SpecRuns == InitRuns /\ [][NextRuns]_vars

-----------------------------------------------------------------------------
(* Single calls of a method, on arguments drawn from bounded sets:           *)
(* ResourceManager.reserve_flask on a ledger, and                            *)
(* CalendarManager.add_business_days on a calendar.  frame holds the         *)
(* arguments, resources the ledger object, ret the returned date.            *)

\* largest |n| of add_business_days(d, n)
MaxN == 6

CallHolidays == { {}, {BaseMonday + 7}, {BaseMonday + 4, BaseMonday + 7} }

\* a ledger before the call: empty, or holding flasks of two sizes and molds
CallLedgers ==
    LET rm == ResourceManager([F105 |-> 3, F120 |-> 2], 3, 6, 2, 3, 3, <<>>)
        r1 == reserve_flask(rm, BaseMonday + 3, BaseMonday + 5, "F105", 1)
        r2 == reserve_flask(r1, BaseMonday + 4, BaseMonday + 4, "F120", 2)
    IN { rm, reserve_staging(reserve_molds(r2, BaseMonday + 4, 2), BaseMonday + 5, 2) }

CallFrame(ctx, start_day, end_day, flask_size, quantity, d, n) ==
    [ ctx |-> ctx, start_day |-> start_day, end_day |-> end_day,
      flask_size |-> flask_size, quantity |-> quantity, d |-> d, n |-> n ]

ReserveFlaskCalls ==
    { CallFrame("reserve_flask", start_day, end_day, flask_size, quantity, None, 0) :
        start_day \in (BaseMonday + 3)..(BaseMonday + 5),
        end_day \in (BaseMonday + 2)..(BaseMonday + 8),
        flask_size \in {"F105", "F120"},
        quantity \in 1..MaxQty }

AddBusinessDaysCalls ==
    { CallFrame("add_business_days", None, None, "", 0, d, n) :
        d \in BaseMonday..(BaseMonday + 12), n \in (0 - MaxN)..MaxN }

InitCalls ==
    /\ today = BaseMonday + 3
    /\ holidays \in CallHolidays
    /\ resources \in CallLedgers
    /\ frame \in ReserveFlaskCalls \cup AddBusinessDaysCalls
    /\ pc = "call"
    /\ orders = <<>>
    /\ input_orders = <<>>
    /\ idx = 1
    /\ plan = NoPlan
    /\ ret = None
    /\ full_plan = <<>>
    /\ exc = "None"
    /\ history = <<>>

CallReserveFlask ==
    /\ pc = "call"
    /\ frame.ctx = "reserve_flask"
    /\ resources' = reserve_flask(resources, frame.start_day, frame.end_day,
                                  frame.flask_size, frame.quantity)
    /\ pc' = "returned"
    /\ UNCHANGED <<history, input_orders, today, holidays, orders, idx, plan, frame, ret, full_plan, exc>>

CallAddBusinessDays ==
    /\ pc = "call"
    /\ frame.ctx = "add_business_days"
    /\ ret' = add_business_days(holidays, frame.d, frame.n)
    /\ pc' = "returned"
    /\ UNCHANGED <<history, input_orders, today, holidays, resources, orders, idx, plan, frame, full_plan, exc>>

NextCalls ==
    \/ CallReserveFlask
    \/ CallAddBusinessDays

SpecCalls == InitCalls /\ [][NextCalls]_vars

-----------------------------------------------------------------------------
(* Reading the emitted plans *)

\* days of the ledger's flask counters: flask_pool is keyed by <<day, size>>
FlaskPoolDays == {k[1] : k \in DOMAIN resources.flask_pool}

\* the order with this id, as parsed
InputOrder(id) ==
    input_orders[CHOOSE k \in 1..Len(input_orders) : input_orders[k].order_id = id]

Entries(id, phase) == GetList(full_plan[id].schedule, phase)
EntryDay(e) == e[1].iso
EntryQty(e) == e[2]

Scheduled(id) == full_plan[id].status \in {"ONTIME", "DELAYED"}

\* sum of the quantities of the entries of a phase of one plan that fall on day d
QtyOn(id, phase, d) ==
    LET es == Entries(id, phase)
    IN SumSeq([i \in 1..Len(es) |-> IF EntryDay(es[i]) = d THEN EntryQty(es[i]) ELSE 0])

\* the same, summed over the emitted plans of the orders whose id is in ids
TotalOn(phase, d, ids) ==
    SumSeq([k \in 1..Len(input_orders) |->
               IF input_orders[k].order_id \in DOMAIN full_plan
                  /\ input_orders[k].order_id \in ids
               THEN QtyOn(input_orders[k].order_id, phase, d) ELSE 0])

\* the ids of all orders, of the orders of one part number, of one family
AnyOrder == {input_orders[k].order_id : k \in 1..Len(input_orders)}
WithPart(p) == {o.order_id : o \in {x \in {input_orders[k] : k \in 1..Len(input_orders)} : x.part_number = p}}
InFamily(f) == {o.order_id : o \in {x \in {input_orders[k] : k \in 1..Len(input_orders)} : x.product_family = f}}

\* molds of one plan whose flask is held on day d: molding day <= d <= shakeout day
HeldOn(id, d) ==
    LET ms == Entries(id, "molding")
        ss == Entries(id, "shakeout")
    IN SumSeq([i \in 1..Len(ms) |->
                  IF EntryDay(ms[i]) <= d /\ d <= EntryDay(ss[i])
                  THEN EntryQty(ms[i]) ELSE 0])

TotalHeld(size, d) ==
    SumSeq([k \in 1..Len(input_orders) |->
               IF input_orders[k].order_id \in DOMAIN full_plan
                  /\ input_orders[k].flask_size = size
               THEN HeldOn(input_orders[k].order_id, d) ELSE 0])

\* number of emitted plans with an entry of the phase on day d
PlansOn(phase, d) ==
    Cardinality({id \in DOMAIN full_plan :
                    \E i \in 1..Len(Entries(id, phase)) : EntryDay(Entries(id, phase)[i]) = d})

SumQty(es) == SumSeq([i \in 1..Len(es) |-> EntryQty(es[i])])

\* every day on which some emitted plan has an entry
PlanDays ==
    UNION { UNION { {EntryDay(full_plan[id].schedule[phase][i]) :
                        i \in 1..Len(full_plan[id].schedule[phase])} :
                    phase \in DOMAIN full_plan[id].schedule } :
            id \in DOMAIN full_plan }

\* the days on which the limits are checked: from the first to the last day of the
\* emitted plans (no plan has a quantity on any other day)
CheckDays ==
    IF PlanDays = {} THEN {}
    ELSE (CHOOSE a \in PlanDays : \A b \in PlanDays : a <= b)
         ..(CHOOSE a \in PlanDays : \A b \in PlanDays : a >= b)

\* the first business day on or after day x
FirstBusinessDayFrom(x) ==
    CHOOSE d \in x..(x + 14) :
        /\ is_business_day(holidays, d)
        /\ \A e \in x..(d - 1) : ~is_business_day(holidays, e)

-----------------------------------------------------------------------------
(* Claims *)

\* C1: for every flask size s and every day d, the molds of size s whose holding
\* interval [molding day, shakeout day] contains d, summed over all emitted plans,
\* are at most flask_limits[s]; the ledger's flask counter obeys the same limit.
C1_FlaskLimit ==
    \A size \in DOMAIN resources.flask_limits :
        /\ \A d \in CheckDays : TotalHeld(size, d) <= resources.flask_limits[size]
        /\ \A d \in FlaskPoolDays :
              Get(resources.flask_pool, <<d, size>>) <= resources.flask_limits[size]

\* one order molds on two days, one flask in all, and the flask is in use
C1_Witness ==
    /\ pc = "done"
    /\ resources.flask_limits["F105"] = 1
    /\ \E id \in DOMAIN full_plan :
          /\ ~InputOrder(id).is_new
          /\ Len(Entries(id, "molding")) >= 2
          /\ \E d \in CheckDays : HeldOn(id, d) = 1

\* C2: for every day d the molding quantities of all emitted plans on d sum to at
\* most max_molds_per_day.
C2_MoldsPerDay ==
    \A d \in CheckDays : TotalOn("molding", d, AnyOrder) <= resources.max_molds_per_day

\* two orders mold on the same day and fill it
C2_Witness ==
    /\ pc = "done"
    /\ \E d \in CheckDays :
          /\ PlansOn("molding", d) = 2
          /\ TotalOn("molding", d, AnyOrder) = resources.max_molds_per_day

\* C3: for every day d the staging quantities of all emitted plans on d sum to at
\* most max_staging_molds.
C3_StagingLimit ==
    \A d \in CheckDays : TotalOn("staging", d, AnyOrder) <= resources.max_staging_molds

\* C4: for every day d the pouring tons of all emitted plans on d sum to at most
\* max_pouring_tons_per_day.
C4_PouringLimit ==
    /\ \A d \in CheckDays :
          TotalOn("pouring", d, AnyOrder) <= resources.max_pouring_tons_per_day
    /\ \A d \in DOMAIN resources.daily_pouring :
          resources.daily_pouring[d] <= resources.max_pouring_tons_per_day

\* two orders pour on the same day and use the whole pouring capacity
C4_Witness ==
    /\ pc = "done"
    /\ \E d \in CheckDays :
          /\ PlansOn("pouring", d) = 2
          /\ TotalOn("pouring", d, AnyOrder) = resources.max_pouring_tons_per_day

\* C5: for every day d and part number p, the molding quantities on d of the
\* orders that share part number p sum to at most max_same_part_molds_per_day.
C5_SamePartLimit ==
    \A d \in CheckDays :
        \A p \in {input_orders[k].part_number : k \in 1..Len(input_orders)} :
            TotalOn("molding", d, WithPart(p)) <= resources.max_same_part_molds_per_day

\* C6: for every day d and every family f listed in product_family_max_mix, the
\* molding quantities on d of the emitted plans of the orders of family f sum to at
\* most floor(product_family_max_mix[f] * max_molds_per_day).
C6_FamilyMixLimit ==
    \A d \in CheckDays : \A f \in DOMAIN resources.product_family_max_mix :
        TotalOn("molding", d, InFamily(f))
           <= (resources.product_family_max_mix[f] * resources.max_molds_per_day) \div 100

\* C7: for every day d the pattern entries of all emitted plans on d number at most
\* max_patterns_per_day, and so does the ledger's pattern counter.
C7_PatternLimit ==
    /\ \A d \in CheckDays :
          TotalOn("pattern", d, AnyOrder) <= resources.max_patterns_per_day
    /\ \A d \in DOMAIN resources.pattern_slots :
          resources.pattern_slots[d] <= resources.max_patterns_per_day

\* two new orders, one pattern a day: their pattern days differ
C7_Witness ==
    /\ pc = "done"
    /\ resources.max_patterns_per_day = 1
    /\ \A id \in DOMAIN full_plan : Len(Entries(id, "pattern")) = 2
    /\ Cardinality(DOMAIN full_plan) = 2

\* C8: the molding quantities of every plan emitted ONTIME or DELAYED sum to the
\* order's input total_molds = ceil(parts_total / parts_per_mold).
C8_MoldingSum ==
    \A id \in DOMAIN full_plan :
        Scheduled(id) =>
            SumQty(Entries(id, "molding"))
                = Ceil(InputOrder(id).parts_total, InputOrder(id).parts_per_mold)

\* a new order whose parts do not fill its last mold, scheduled with sample and main
C8_Witness ==
    \E id \in DOMAIN full_plan :
        /\ Scheduled(id)
        /\ InputOrder(id).is_new
        /\ InputOrder(id).parts_total % InputOrder(id).parts_per_mold # 0
        /\ Len(Entries(id, "molding")) >= 2

\* C9: the finishing quantities of every plan emitted ONTIME or DELAYED sum to the
\* order's input parts_total.
C9_FinishingSum ==
    \A id \in DOMAIN full_plan :
        Scheduled(id) => SumQty(Entries(id, "finishing")) = InputOrder(id).parts_total

\* a scheduled order whose parts do not divide evenly over its finishing days
C9_Witness ==
    \E id \in DOMAIN full_plan :
        /\ Scheduled(id)
        /\ ~InputOrder(id).is_new
        /\ Len(Entries(id, "finishing")) = 2
        /\ InputOrder(id).parts_total % 2 = 1

\* C10: for every molding entry (M, q) of a scheduled plan, M is a business day,
\* the staging entry is on M + 1, the pouring entry on the first business day on or
\* after the staging day, and the shakeout entry on the first business day on or
\* after the pouring day plus cooling_days calendar days.
C10_PhaseChain ==
    \A id \in DOMAIN full_plan :
        Scheduled(id) =>
            /\ Len(Entries(id, "staging")) = Len(Entries(id, "molding"))
            /\ Len(Entries(id, "pouring")) = Len(Entries(id, "molding"))
            /\ Len(Entries(id, "shakeout")) = Len(Entries(id, "molding"))
            /\ \A i \in 1..Len(Entries(id, "molding")) :
                  LET M == EntryDay(Entries(id, "molding")[i])
                      staging == EntryDay(Entries(id, "staging")[i])
                      pouring == EntryDay(Entries(id, "pouring")[i])
                      shakeout == EntryDay(Entries(id, "shakeout")[i])
                  IN /\ is_business_day(holidays, M)
                     /\ staging = M + 1
                     /\ pouring = FirstBusinessDayFrom(staging)
                     /\ shakeout = FirstBusinessDayFrom(pouring + InputOrder(id).cooling_days)

\* molding on a Friday before a holiday Monday: staging Saturday, pouring Tuesday
C10_Witness ==
    \E id \in DOMAIN full_plan :
        /\ Scheduled(id)
        /\ \E i \in 1..Len(Entries(id, "molding")) :
              LET M == EntryDay(Entries(id, "molding")[i])
              IN /\ M % 7 = 4
                 /\ (M + 3) \in holidays
                 /\ EntryDay(Entries(id, "staging")[i]) = M + 1
                 /\ EntryDay(Entries(id, "pouring")[i]) = M + 4

\* C11: for every emitted plan (recurrent or consolidated new order), status ONTIME
\* implies end_date <= due_date and status DELAYED implies end_date > due_date.
C11_StatusMatchesEndDate ==
    \A id \in DOMAIN full_plan :
        /\ full_plan[id].status = "ONTIME"
              => full_plan[id].end_date.iso <= InputOrder(id).due_date
        /\ full_plan[id].status = "DELAYED"
              => full_plan[id].end_date.iso > InputOrder(id).due_date

\* a consolidated new order emitted DELAYED next to a recurrent order emitted ONTIME
C11_Witness ==
    /\ pc = "done"
    /\ \E a \in DOMAIN full_plan : \E b \in DOMAIN full_plan :
          /\ InputOrder(a).is_new
          /\ full_plan[a].status = "DELAYED"
          /\ ~InputOrder(b).is_new
          /\ full_plan[b].status = "ONTIME"

\* no start date is feasible for the order: its flask size has no flasks, or one
\* mold weighs more than the daily pouring capacity
NoCapacityFor(order) ==
    \/ resources.flask_limits[order.flask_size] = 0
    \/ tons_per_mold(order) > resources.max_pouring_tons_per_day

\* C12: plan_order tries at most max_search_days candidate start dates, and for an
\* order that no start date can accommodate (no flask of its size, or a mold
\* heavier than the daily pouring capacity) it does not raise but returns
\* UNSCHEDULED.
C12_InfeasibleIsUnscheduled ==
    /\ frame.attempt <= max_search_days
    /\ (frame.ctx # "none" /\ NoCapacityFor(CurOrder)) =>
          /\ pc # "raised"
          /\ pc = "return" => ret.status = UNSCHEDULED

\* C13: no run is aborted: the orchestrator never raises, every emitted status is
\* ONTIME, DELAYED or UNSCHEDULED, and when the run ends full_plan has exactly one
\* entry for every input order (so the orders after an UNSCHEDULED or DELAYED one
\* have been planned too).
C13_OneEntryPerOrder ==
    /\ pc # "raised"
    /\ \A id \in DOMAIN full_plan :
          full_plan[id].status \in {"ONTIME", "DELAYED", "UNSCHEDULED"}
    /\ pc = "done" => DOMAIN full_plan = AnyOrder

\* sum of the quantities of the <<day, quantity>> entries es that fall on day d
SumOn(es, d) == SumSeq([i \in 1..Len(es) |-> IF es[i][1] = d THEN es[i][2] ELSE 0])

\* the molding entries of a dry-run plan as (molding day, quantity) pairs
MoldingPairs(dry) ==
    [i \in 1..Len(GetList(dry, "molding")) |-> <<dry["molding"][i].mold_day, dry["molding"][i].qty>>]

\* C14: when plan_order commits, the plan it commits is the dry-run plan of the
\* accepted start date; the (molding day, quantity) sequence of the returned
\* schedule is the dry-run's, the ledger's daily mold counter grows on every day by
\* exactly the dry-run's quantity of that day, and the staging, pouring and
\* shakeout entries of the returned schedule have the dry-run's per-day sums.
C14_CommitIsDryRun ==
    [][ (pc = "firm" /\ pc' = "return") =>
          LET dry == frame.dry
              days == {MoldingPairs(dry)[i][1] : i \in 1..Len(MoldingPairs(dry))}
                         \cup DOMAIN resources'.daily_molds
          IN /\ dry = try_schedule(CurOrder, frame.start_date, holidays, resources).plan
             /\ ret'.start_date = frame.start_date
             /\ ret'.schedule["molding"] = MoldingPairs(dry)
             /\ \A d \in days :
                   Get(resources'.daily_molds, d) - Get(resources.daily_molds, d)
                      = SumOn(MoldingPairs(dry), d)
             /\ \A phase \in {"staging", "pouring", "shakeout"} :
                   \A i \in 1..Len(dry[phase]) :
                       SumOn(ret'.schedule[phase], dry[phase][i][1])
                          = SumOn(dry[phase], dry[phase][i][1])
             /\ \A phase \in {"staging", "pouring", "shakeout"} :
                   Len(ret'.schedule[phase]) = Len(dry[phase]) ]_vars

\* the second order of a run has been committed from a dry-run plan that molds on
\* two days, one of them with two molds, on a ledger the first order has used
C14_Witness ==
    /\ pc = "return"
    /\ ret.status # UNSCHEDULED
    /\ idx = 2
    /\ \E d \in DOMAIN resources.daily_molds : resources.daily_molds[d] > 0
    /\ Len(ret.schedule["molding"]) = 2
    /\ ret.schedule["molding"] = MoldingPairs(frame.dry)
    /\ \E i \in 1..2 : ret.schedule["molding"][i][2] = 2

\* C15: while plan_order searches for an order of strategy JIT that was passed
\* without start_date (a recurrent order), the direction is -1, and the first
\* candidate is add_business_days(due_date, -(estimated_duration + safety_days)).
C15_JITStartsBackward ==
    (pc = "search" /\ frame.ctx = "recurrent" /\ orders[idx].strategy = Strategy_JIT) =>
        /\ frame.direction = 0 - 1
        /\ frame.attempt = 0 =>
              frame.start_date
                 = add_business_days(holidays, orders[idx].due_date,
                       0 - (compute_estimated_duration(orders[idx],
                                                       resources.max_molds_per_day)
                            + frame.safety_days))

\* C16: when plan_order's search loop is exhausted for an order of strategy JIT,
\* the order's strategy becomes ASAP and the search starts once more from today
\* with safety_days = 0 and a fresh attempt counter; when it is exhausted for an
\* order that is not JIT (any more), plan_order returns UNSCHEDULED.
C16_JITFallsBackOnce ==
    [][ /\ (pc = "search" /\ frame.attempt >= max_search_days
                /\ CurOrder.strategy = Strategy_JIT) =>
              /\ pc' = "search"
              /\ CurOrder'.strategy = Strategy_ASAP
              /\ frame'.attempt = 0
              /\ frame'.start_date = today
              /\ frame'.safety_days = 0
        /\ (pc = "search" /\ frame.attempt >= max_search_days
                /\ CurOrder.strategy # Strategy_JIT) =>
              /\ pc' = "return"
              /\ ret'.status = UNSCHEDULED ]_vars

\* C17: orders are planned in non-decreasing slack: an order whose plan has been
\* emitted has at most the slack of every order not yet emitted, where
\* slack(o) = (due_date - estimated_duration(o)) - today of the order as parsed.
C17_PlannedBySlack ==
    \A a \in DOMAIN full_plan : \A b \in AnyOrder \ DOMAIN full_plan :
        slack(InputOrder(a), resources, today) <= slack(InputOrder(b), resources, today)

\* the second order of orders.yaml has less slack than the first and has been
\* planned and committed while the first is still waiting
C17_Witness ==
    /\ DOMAIN full_plan = {input_orders[2].order_id}
    /\ Scheduled(input_orders[2].order_id)
    /\ slack(input_orders[2], resources, today) < slack(input_orders[1], resources, today)

\* C18: for every plan that plan_order returns scheduled, the number d of finishing
\* entries is the largest d in finishing_days_min..finishing_days_nominal for which
\* the plan's end_date (the last of d consecutive finishing business days) is
\* <= due_date; when no d qualifies, d = finishing_days_min and the status is
\* DELAYED.
C18_FinishingWindow ==
    (pc = "return" /\ ret.status # UNSCHEDULED) =>
        LET fin == ret.schedule["finishing"]
            d == Len(fin)
            EndFor(k) == add_business_days(holidays, fin[1][1], k - 1)
            fits == {k \in CurOrder.finishing_days_min..CurOrder.finishing_days_nominal :
                        EndFor(k) <= CurOrder.due_date}
        IN /\ ret.end_date = EndFor(d)
           /\ IF fits # {}
              THEN d \in fits /\ \A k \in fits : k <= d
              ELSE d = CurOrder.finishing_days_min /\ ret.status = DELAYED

\* C19: in the emitted plan of every scheduled recurrent order, the first finishing
\* entry is on next_business_day of the day of the last shakeout entry.
C19_FinishingAfterShakeout ==
    \A id \in DOMAIN full_plan :
        (Scheduled(id) /\ ~InputOrder(id).is_new) =>
            LET shakeout == Entries(id, "shakeout")
            IN EntryDay(Entries(id, "finishing")[1])
                  = next_business_day(holidays, EntryDay(shakeout[Len(shakeout)]))

\* C20: for a new order, every molding day of the scheduled sample is on or after
\* add_business_days(pattern_end, 3), pattern_end being the last pattern day, and
\* every molding day of the scheduled main production is on or after
\* add_business_days(sample_end, 3), sample_end being the sample's end date; so
\* the sample's end date lies before every main molding day.
C20_NewOrderOrdering ==
    /\ (pc = "return" /\ frame.ctx = "sample" /\ ret.status # UNSCHEDULED) =>
          LET pattern == plan.schedule["pattern"]
              pattern_end == pattern[Len(pattern)][1]
          IN \A i \in 1..Len(ret.schedule["molding"]) :
                ret.schedule["molding"][i][1]
                   >= add_business_days(holidays, pattern_end, 3)
    /\ (pc = "return" /\ frame.ctx = "main" /\ ret.status # UNSCHEDULED) =>
          LET sample_end == plan.schedule["sample_end"][1][1]
          IN /\ sample_end = plan.sample_plan.end_date
             /\ \A i \in 1..Len(ret.schedule["molding"]) :
                   /\ ret.schedule["molding"][i][1]
                         >= add_business_days(holidays, sample_end, 3)
                   /\ sample_end < ret.schedule["molding"][i][1]

\* the main production of a new order has been committed with two molding days,
\* the first exactly three business days after the sample's end date
C20_Witness ==
    /\ pc = "return"
    /\ frame.ctx = "main"
    /\ ret.status # UNSCHEDULED
    /\ Len(ret.schedule["molding"]) >= 2
    /\ ret.schedule["molding"][1][1]
          = add_business_days(holidays, plan.sample_plan.end_date, 3)
    /\ Len(plan.sample_plan.schedule["molding"]) >= 1

\* C21: when the pattern phase of a new order completes, schedule["pattern"] has
\* exactly pattern_days entries of quantity 1 on strictly increasing business days
\* not before today; the pattern counter of each of these days was below
\* max_patterns_per_day before the phase and is higher by exactly 1 after it, and
\* the counter of no other day has changed.
C21_PatternPhase ==
    [][ (pc = "loop" /\ pc' = "sample") =>
          LET pattern == plan'.schedule["pattern"]
              days == {pattern[i][1] : i \in 1..Len(pattern)}
          IN /\ Len(pattern) = orders[idx].pattern_days
             /\ \A i \in 1..Len(pattern) :
                   /\ pattern[i][2] = 1
                   /\ is_business_day(holidays, pattern[i][1])
                   /\ pattern[i][1] >= today
                   /\ i > 1 => pattern[i][1] > pattern[i - 1][1]
                   /\ Get(resources.pattern_slots, pattern[i][1])
                         < resources.max_patterns_per_day
                   /\ Get(resources'.pattern_slots, pattern[i][1])
                         = Get(resources.pattern_slots, pattern[i][1]) + 1
             /\ \A d \in (DOMAIN resources'.pattern_slots) \ days :
                   Get(resources'.pattern_slots, d) = Get(resources.pattern_slots, d) ]_vars

\* the second new order of a run, one pattern a day: today's slot is taken by the
\* first order, so its two pattern days start after today
C21_Witness ==
    /\ pc = "sample"
    /\ idx = 2
    /\ resources.max_patterns_per_day = 1
    /\ Len(plan.schedule["pattern"]) = 2
    /\ plan.schedule["pattern"][1][1] > today
    /\ resources.pattern_slots[today] = 1

\* the emitted form of a list of <<day, quantity>> entries
Emitted(es) == [i \in 1..Len(es) |-> <<Iso(es[i][1]), es[i][2]>>]

\* C22: when the sample and the main production of a new order are both scheduled,
\* the emitted plan has status DELAYED if either part is DELAYED and ONTIME
\* otherwise, start_date the day of the first pattern entry, end_date the later of
\* the two end dates, for each of molding, staging, pouring, shakeout and finishing
\* the sample's entries followed by the main's, the pattern entries as reserved,
\* and exactly one sample_end entry (sample end date, 1).
C22_Consolidation ==
    [][ (pc = "return" /\ frame.ctx = "main" /\ ret.status # UNSCHEDULED) =>
          LET e == full_plan'[orders[idx].order_id]
              sample == plan.sample_plan
              main == ret
          IN /\ e.status = IF sample.status = DELAYED \/ main.status = DELAYED
                           THEN "DELAYED" ELSE "ONTIME"
             /\ e.start_date = Iso(plan.schedule["pattern"][1][1])
             /\ e.end_date = Iso(IF sample.end_date >= main.end_date
                                 THEN sample.end_date ELSE main.end_date)
             /\ DOMAIN e.schedule = {"pattern", "sample_end", "molding", "staging",
                                     "pouring", "shakeout", "finishing"}
             /\ \A phase \in {"molding", "staging", "pouring", "shakeout", "finishing"} :
                   e.schedule[phase]
                      = Emitted(sample.schedule[phase]) \o Emitted(main.schedule[phase])
             /\ e.schedule["pattern"] = Emitted(plan.schedule["pattern"])
             /\ e.schedule["sample_end"] = << <<Iso(sample.end_date), 1>> >> ]_vars

\* a consolidated new order whose sample is ONTIME and whose main production is
\* DELAYED has been emitted
C22_Witness ==
    /\ pc = "loop"
    /\ idx > 1
    /\ ret.status = DELAYED
    /\ ret.order_id \in DOMAIN full_plan
    /\ InputOrder(ret.order_id).is_new
    /\ full_plan[ret.order_id].status = "DELAYED"
    /\ Len(full_plan[ret.order_id].schedule["sample_end"]) = 1
    /\ full_plan[ret.order_id].schedule["sample_end"][1][1].iso <= InputOrder(ret.order_id).due_date

\* C23: with a single flask of size s and two recurrent ASAP orders of flask size
\* s planned one after the other in the same run, both orders are scheduled with
\* all their molds, and every molding day of the second-planned order is strictly
\* later than the last shakeout day of the first-planned order.
C23_FlaskStarvation ==
    (/\ pc = "done"
     /\ Len(orders) = 2
     /\ \A k \in 1..2 : /\ ~orders[k].is_new
                        /\ orders[k].strategy = Strategy_ASAP
                        /\ orders[k].flask_size = orders[1].flask_size
     /\ resources.flask_limits[orders[1].flask_size] = 1) =>
        LET first == orders[1].order_id
            second == orders[2].order_id
            shakeout == Entries(first, "shakeout")
        IN /\ \A k \in 1..2 :
                 /\ Scheduled(orders[k].order_id)
                 /\ SumQty(Entries(orders[k].order_id, "molding")) = orders[k].total_molds
           /\ \A i \in 1..Len(Entries(second, "molding")) :
                 EntryDay(Entries(second, "molding")[i]) > EntryDay(shakeout[Len(shakeout)])

\* one flask, two recurrent ASAP orders of two and more molds: the first-planned
\* order molds today, the second has waited for its last shakeout
C23_Witness ==
    /\ pc = "done"
    /\ resources.flask_limits["F105"] = 1
    /\ \A k \in 1..2 : ~orders[k].is_new /\ orders[k].strategy = Strategy_ASAP
    /\ Len(Entries(orders[1].order_id, "molding")) >= 2
    /\ Len(Entries(orders[2].order_id, "molding")) >= 2
    /\ EntryDay(Entries(orders[1].order_id, "molding")[1]) = today
    /\ EntryDay(Entries(orders[2].order_id, "molding")[1]) > today + 7

\* every counter of the ledger is zero on every day
LedgerIsZero(rm) ==
    \A c \in {"flask_pool", "daily_molds", "daily_pouring", "pattern_slots",
              "staging_area", "same_part_molds", "product_family_usage"} :
        \A k \in DOMAIN rm[c] : rm[c][k] = 0

\* C24: every planning run, whether started by main or by run_planner, starts
\* from an all-zero ledger, and a run on the same loaded inputs as the run before
\* it ends with the same full_plan.
C24_LedgerRunScoped ==
    /\ (pc \in {"sort", "loop"} /\ idx = 1) => LedgerIsZero(resources)
    /\ (pc = "done" /\ history # <<>>) =>
          full_plan = history[Len(history)].full_plan

CounterNames ==
    { "flask_pool", "daily_molds", "daily_pouring", "pattern_slots",
      "staging_area", "same_part_molds", "product_family_usage" }

SameValues(f, g) == \A k \in (DOMAIN f) \cup (DOMAIN g) : Get(f, k) = Get(g, k)

SameCounters(r1, r2) == \A c \in CounterNames : SameValues(r1[c], r2[c])

\* C26: a step of the search loop, which is where try_schedule is called,
\* leaves the value of every ledger counter on every day as it was, whatever
\* the dry-run reports; a step that changes a counter value is the commit
\* (firm_schedule) or the pattern loop of a new order.
C26_DryRunPure ==
    [][ /\ (pc = "search" => SameCounters(resources, resources'))
        /\ (~SameCounters(resources, resources')
               => (pc = "firm" \/ (pc = "loop" /\ pc' = "sample"))) ]_vars

\* a feasible dry-run has just read the ledger (the keys it created count 0)
\* while earlier commits hold molds and flasks
C26_Witness ==
    /\ pc = "firm"
    /\ \E d \in DOMAIN resources.daily_molds : resources.daily_molds[d] = 0
    /\ \E d \in DOMAIN resources.daily_molds : resources.daily_molds[d] > 0
    /\ \E k \in DOMAIN resources.flask_pool : resources.flask_pool[k] > 0

\* C27: within a run no step lowers a ledger counter: for every counter and
\* every key, the value after a step is at least the value before it.
C27_CountersMonotone ==
    [][ \A c \in CounterNames :
            \A k \in (DOMAIN resources[c]) \cup (DOMAIN resources'[c]) :
                Get(resources'[c], k) >= Get(resources[c], k) ]_vars

\* a commit has just raised the ledger and every counter holds something
C27_Witness ==
    /\ pc = "return"
    /\ ret.status # UNSCHEDULED
    /\ \A c \in CounterNames : \E k \in DOMAIN resources[c] : resources[c][k] > 0

\* C28: in a plan_order call that was given a start_date (the sample's call
\* and the main production's call) for an ASAP order, the search moves forward:
\* each candidate start date tried is on or after the one tried before it, and
\* so on or after the given start_date.
C28_ExplicitStartForward ==
    [][ ( /\ pc = "search" /\ pc' = "search"
          /\ frame.ctx \in {"sample", "main"} /\ frame'.ctx = frame.ctx
          /\ CurOrder.strategy = Strategy_ASAP )
        => frame'.start_date >= frame.start_date ]_vars

\* C29: in the plan a feasible dry-run returns, with d the number of finishing
\* entries, the first entry is on finishing_start, each next entry is on the
\* next business day after the one before it, the first (parts_total mod d)
\* entries carry floor(parts_total / d) + 1 parts and the others
\* floor(parts_total / d).
C29_FinishingDistribution ==
    pc = "firm" =>
        LET fin == frame.dry["finishing"]
            molding == frame.dry["molding"]
            d == Len(fin)
            parts_total == CurOrder.parts_total
        IN /\ d >= 1
           /\ fin[1][1] = finishing_start_of(holidays, CurOrder,
                                             molding[Len(molding)].mold_day)
           /\ \A i \in 1..d :
                 /\ is_business_day(holidays, fin[i][1])
                 /\ i > 1 => fin[i][1] = next_business_day(holidays, fin[i - 1][1])
                 /\ fin[i][2] = IF i <= parts_total % d
                                THEN (parts_total \div d) + 1
                                ELSE parts_total \div d

\* three parts over two finishing days that a weekend separates
C29_Witness ==
    /\ pc = "firm"
    /\ Len(frame.dry["finishing"]) = 2
    /\ CurOrder.parts_total = 3
    /\ frame.dry["finishing"][2][1] - frame.dry["finishing"][1][1] > 1

\* C30: in every stored plan the molding entries are in strictly increasing
\* date order, so no molding day appears in two entries; for a new order the
\* entries are the sample's followed by the main production's.
C30_MoldingDaysIncrease ==
    \A id \in DOMAIN full_plan :
        LET molding == Entries(id, "molding")
        IN \A i \in 1..Len(molding) : \A j \in 1..Len(molding) :
               i < j => EntryDay(molding[i]) < EntryDay(molding[j])

\* a new order whose sample and whose main production each mold on more than
\* one day
C30_Witness ==
    \E id \in DOMAIN full_plan :
        /\ Scheduled(id)
        /\ InputOrder(id).is_new
        /\ Len(Entries(id, "molding")) >= 4
        /\ Len(Entries(id, "sample_end")) = 1

\* C31: reserve_flask(start_day, end_day, size, q) raises the flask counter of
\* that size by q on every calendar day from start_day to end_day, weekend days
\* and holidays included, and leaves every other day, every other size and
\* every other counter and limit as it was; with start_day > end_day nothing
\* changes.
C31_ReserveFlaskFrame ==
    [][ (pc = "call" /\ frame.ctx = "reserve_flask") =>
          LET days == frame.start_day..frame.end_day
              before == resources.flask_pool
              after == resources'.flask_pool
          IN /\ \A d \in days :
                    Get(after, <<d, frame.flask_size>>)
                        = Get(before, <<d, frame.flask_size>>) + frame.quantity
             /\ \A k \in (DOMAIN before) \cup (DOMAIN after) :
                    (k[1] \notin days \/ k[2] # frame.flask_size)
                        => Get(after, k) = Get(before, k)
             /\ [resources' EXCEPT !.flask_pool = before] = resources
             /\ frame.start_day > frame.end_day => resources' = resources ]_vars

\* a call over Thursday..Monday, a weekend and a holiday inside, on a ledger
\* that holds flasks of the other size and molds
C31_Witness ==
    /\ pc = "returned"
    /\ frame.ctx = "reserve_flask"
    /\ frame.start_day = BaseMonday + 3
    /\ frame.end_day = BaseMonday + 7
    /\ BaseMonday + 7 \in holidays
    /\ frame.flask_size = "F105"
    /\ Get(resources.flask_pool, <<BaseMonday + 5, "F105">>) = frame.quantity + 1
    /\ Get(resources.flask_pool, <<BaseMonday + 6, "F105">>) = frame.quantity
    /\ Get(resources.flask_pool, <<BaseMonday + 4, "F120">>) = 2
    /\ Get(resources.daily_molds, BaseMonday + 4) = 2

\* C34: add_business_days(d, n) returns d for n = 0; for n # 0 it returns a
\* business day on the side of d that the sign of n gives, with exactly |n|
\* business days between d (excluded) and the result (included);
\* next_business_day(d) is add_business_days(d, 1) and prev_business_day(d) is
\* add_business_days(d, -1).
C34_AddBusinessDays ==
    (pc = "returned" /\ frame.ctx = "add_business_days") =>
        LET d == frame.d
            n == frame.n
            r == ret
            BusinessDaysIn(days) == Cardinality({x \in days : is_business_day(holidays, x)})
        IN /\ n = 0 => r = d
           /\ n > 0 => /\ r > d
                       /\ is_business_day(holidays, r)
                       /\ BusinessDaysIn((d + 1)..r) = n
           /\ n < 0 => /\ r < d
                       /\ is_business_day(holidays, r)
                       /\ BusinessDaysIn(r..(d - 1)) = 0 - n
           /\ n = 1 => r = next_business_day(holidays, d)
           /\ n = 0 - 1 => r = prev_business_day(holidays, d)

\* six business days counted back from a Saturday, across a weekend and two
\* holidays
C34_Witness ==
    /\ pc = "returned"
    /\ frame.ctx = "add_business_days"
    /\ frame.d = BaseMonday + 12
    /\ frame.n = 0 - MaxN
    /\ holidays = {BaseMonday + 4, BaseMonday + 7}
    /\ ret < BaseMonday + 4

\* C32: in the plan a dry-run returns for an order whose family f is listed in
\* product_family_max_mix, every molding entry is at most
\* floor(product_family_max_mix[f] * max_molds_per_day) minus the usage of f
\* already committed on that day, the entries are on business days in
\* increasing order and together hold all molds of the order; for an order
\* whose family is not listed the plan is the one the dry-run returns when no
\* family is limited at all.
C32_FamilyMixCap ==
    pc = "firm" =>
        LET order == CurOrder
            f == order.product_family
            molding == frame.dry["molding"]
        IN IF f \in DOMAIN resources.product_family_max_mix
           THEN /\ \A i \in 1..Len(molding) :
                      /\ molding[i].qty
                            <= ((resources.product_family_max_mix[f]
                                   * resources.max_molds_per_day) \div 100)
                               - Get(resources.product_family_usage,
                                     <<molding[i].mold_day, f>>)
                      /\ is_business_day(holidays, molding[i].mold_day)
                      /\ i > 1 => molding[i].mold_day > molding[i - 1].mold_day
                /\ SumSeq([i \in 1..Len(molding) |-> molding[i].qty]) = order.total_molds
           ELSE frame.dry
                   = try_schedule(order, frame.start_date, holidays,
                         [resources EXCEPT !.product_family_max_mix = <<>>]).plan

\* an order of a capped family molds one mold a day, the cap, over two days, after
\* skipping its start day on which another order had used up the family's share
C32_Witness ==
    /\ pc = "firm"
    /\ CurOrder.product_family \in DOMAIN resources.product_family_max_mix
    /\ Get(resources.product_family_usage, <<frame.start_date, CurOrder.product_family>>) = 1
    /\ Len(frame.dry["molding"]) = 2
    /\ frame.dry["molding"][1].mold_day > frame.start_date
    /\ Get(resources.daily_molds, frame.start_date) < resources.max_molds_per_day

\* C33: when the sample's plan_order returns UNSCHEDULED, the order is stored
\* with status UNSCHEDULED, without start_date and end_date and with no entry
\* of a phase other than pattern, the ledger is left as it is, and main goes on
\* to the next order: plan_order is not entered for the main production.
C33_SampleUnscheduled ==
    [][ (pc = "return" /\ frame.ctx = "sample" /\ ret.status = UNSCHEDULED) =>
          LET id == orders[idx].order_id
          IN /\ id \in DOMAIN full_plan'
             /\ full_plan'[id].status = "UNSCHEDULED"
             /\ full_plan'[id].start_date = Iso(None)
             /\ full_plan'[id].end_date = Iso(None)
             /\ DOMAIN full_plan'[id].schedule = {"pattern"}
             /\ pc' = "loop"
             /\ idx' = idx + 1
             /\ resources' = resources ]_vars

\* a new order without sample molds has been stored after its sample could not
\* be planned; its patterns were made
C33_Witness ==
    /\ pc = "loop"
    /\ \E id \in DOMAIN full_plan :
          /\ InputOrder(id).is_new
          /\ InputOrder(id).sample_molds = 0
          /\ full_plan[id].status = "UNSCHEDULED"
          /\ Len(Entries(id, "pattern")) = 2
          /\ Entries(id, "sample_end") = <<>>

\* C35: an order stored as UNSCHEDULED holds nothing in the ledger.  Stated for
\* the order a run plans first, before which every counter is 0: when that
\* order has been stored as UNSCHEDULED, every counter of every day is still 0.
C35_UnscheduledHoldsNothing ==
    (pc = "loop" /\ idx = 2 /\ orders[1].order_id \in DOMAIN full_plan
        /\ full_plan[orders[1].order_id].status = "UNSCHEDULED")
      => LedgerIsZero(resources)

\* number of entries of a phase on day d, over all emitted plans
EntriesOn(phase, d) ==
    SumSeq([k \in 1..Len(input_orders) |->
               IF input_orders[k].order_id \in DOMAIN full_plan
               THEN Cardinality({i \in 1..Len(Entries(input_orders[k].order_id, phase)) :
                                    EntryDay(Entries(input_orders[k].order_id, phase)[i]) = d})
               ELSE 0])

\* C36: at the end of a run in which every order is scheduled, on every day the
\* molding counter is the sum of the molding quantities of all emitted plans on
\* that day, the staging counter the sum of their staging quantities, and the
\* pattern counter the number of their pattern entries.
C36_LedgerMatchesPlans ==
    (pc = "done" /\ \A id \in AnyOrder : id \in DOMAIN full_plan /\ Scheduled(id)) =>
        \A d \in PlanDays \cup (DOMAIN resources.daily_molds)
                    \cup (DOMAIN resources.staging_area)
                    \cup (DOMAIN resources.pattern_slots) :
            /\ Get(resources.daily_molds, d) = TotalOn("molding", d, AnyOrder)
            /\ Get(resources.staging_area, d) = TotalOn("staging", d, AnyOrder)
            /\ Get(resources.pattern_slots, d) = EntriesOn("pattern", d)

\* a run of two scheduled new orders ends: both made a pattern on one day, both
\* mold on one day, and one of them stages on more than one day
C36_Witness ==
    /\ pc = "done"
    /\ \A id \in AnyOrder : id \in DOMAIN full_plan /\ Scheduled(id) /\ InputOrder(id).is_new
    /\ \E d \in PlanDays : EntriesOn("pattern", d) = 2
    /\ \E d \in PlanDays : \A id \in AnyOrder : QtyOn(id, "molding", d) > 0
    /\ \E id \in AnyOrder : Len(Entries(id, "staging")) >= 3

\* C37: in the plan of one dry-run, for molding entries on days M1 < M2 the
\* pouring day of M1 is on or before M2 and the pouring day of M2 is after M2,
\* so no two entries pour on the same day; and the same holds for any two
\* business days of the two weeks after today.
C37_DistinctPouringDays ==
    /\ pc = "firm" =>
          LET molding == frame.dry["molding"]
              pouring == frame.dry["pouring"]
          IN /\ Len(pouring) = Len(molding)
             /\ \A i \in 1..Len(molding) : \A j \in 1..Len(molding) :
                   i < j => /\ molding[i].mold_day < molding[j].mold_day
                            /\ pouring[i][1] <= molding[j].mold_day
                            /\ molding[j].mold_day < pouring[j][1]
                            /\ pouring[i][1] # pouring[j][1]
    /\ \A m1 \in today..(today + 14) : \A m2 \in (m1 + 1)..(today + 14) :
          (is_business_day(holidays, m1) /\ is_business_day(holidays, m2)) =>
              /\ pouring_day_of(holidays, staging_day_of(m1)) <= m2
              /\ m2 < pouring_day_of(holidays, staging_day_of(m2))

\* a dry-run plan that molds on a Friday and on the next business day, which is
\* the day the Friday's molds are poured
C37_Witness ==
    /\ pc = "firm"
    /\ Len(frame.dry["molding"]) >= 2
    /\ frame.dry["molding"][1].mold_day % 7 = 4
    /\ frame.dry["pouring"][1][1] = frame.dry["molding"][2].mold_day

\* C38: the start_date of every scheduled recurrent order is the day of its
\* first molding entry.
C38_StartIsFirstMolding ==
    \A id \in DOMAIN full_plan :
        (Scheduled(id) /\ ~InputOrder(id).is_new) =>
            full_plan[id].start_date = Entries(id, "molding")[1][1]

\* C39: for an order with total_molds >= 1 the search of plan_order takes the
\* first candidate start date that is a business day: the dry-run on it is
\* feasible and the commit follows with that start date; the search moves on
\* only from a non-business day, and plan_order returns UNSCHEDULED only for an
\* order with total_molds <= 0.
C39_FirstCandidateAccepted ==
    [][ /\ ( /\ pc = "search"
             /\ CurOrder.total_molds >= 1
             /\ frame.attempt < max_search_days
             /\ is_business_day(holidays, frame.start_date) )
           => (pc' = "firm" /\ frame'.start_date = frame.start_date)
        /\ (pc = "firm" /\ CurOrder.total_molds >= 1)
           => (pc' = "return" /\ ret'.start_date = frame.start_date
                 /\ ret'.status # UNSCHEDULED)
        /\ (pc = "search" /\ pc' = "return" /\ ret'.status = UNSCHEDULED)
           => CurOrder.total_molds <= 0 ]_vars

\* C40: in the emitted plan of every scheduled recurrent order, every finishing
\* entry is on a business day after every shakeout day of the order, and
\* end_date is the latest day of any entry of the schedule.
C40_FinishingLast ==
    \A id \in DOMAIN full_plan :
        (Scheduled(id) /\ ~InputOrder(id).is_new) =>
            LET finishing == Entries(id, "finishing")
                shakeout == Entries(id, "shakeout")
                schedule == full_plan[id].schedule
            IN /\ finishing # <<>>
               /\ \A i \in 1..Len(finishing) :
                     /\ is_business_day(holidays, EntryDay(finishing[i]))
                     /\ \A j \in 1..Len(shakeout) :
                           EntryDay(finishing[i]) > EntryDay(shakeout[j])
               /\ \A phase \in DOMAIN schedule : \A i \in 1..Len(schedule[phase]) :
                     EntryDay(schedule[phase][i]) <= full_plan[id].end_date.iso
               /\ \E phase \in DOMAIN schedule : \E i \in 1..Len(schedule[phase]) :
                     EntryDay(schedule[phase][i]) = full_plan[id].end_date.iso

\* a scheduled recurrent order with cooling, with molds shaken out on two days
\* and parts finished on two days
C40_Witness ==
    \E id \in DOMAIN full_plan :
        /\ Scheduled(id)
        /\ ~InputOrder(id).is_new
        /\ InputOrder(id).cooling_days > 0
        /\ Len(Entries(id, "shakeout")) >= 2
        /\ Len(Entries(id, "finishing")) = 2

====
